---- MODULE Spec2Model ----
(***************************************************************************)
(* A model of src/intelhex_editor.py: the Intel HEX record parser          *)
(* (IntelHexFile.parse_line), the loader (load_file), the memory accessors *)
(* (read_memory, write_memory) and the serializer (save_file).             *)
(*                                                                         *)
(* Text is modelled as text: a line is a sequence of one-character         *)
(* strings, formatting produces hex digits and parsing consumes them.      *)
(* Python integers are unbounded; the model keeps every address below      *)
(* 2^31 so that TLC's integers represent them exactly.                     *)
(***************************************************************************)
EXTENDS Integers, Sequences, FiniteSets, TLC

\* ------------------------------------------------------------------------
\* Python values

\* Optional values (None / a value) are sequences of length 0 or 1.
None == <<>>

Some(v) == <<v>>

IsNone(o) == o = <<>>

Val(o) == o[1]

Min(a, b) == IF a < b THEN a ELSE b

\* s[a:b] for 0 <= a <= b (Python slicing clamps at the end of the string)
Slice(s, a, b) == SubSeq(s, a + 1, Min(b, Len(s)))

\* s[a:]
SliceFrom(s, a) == SubSeq(s, a + 1, Len(s))

RECURSIVE Pow2(_)
Pow2(n) == IF n = 0 THEN 1 ELSE 2 * Pow2(n - 1)

\* x >> n and x << n on non-negative integers
Shr(x, n) == x \div Pow2(n)

Shl(x, n) == x * Pow2(n)

\* x & 0xFF, also for negative x (Python's & on two's complement)
And255(x) == x % 256

\* x & 0xFFFF
And65535(x) == x % 65536

\* a | b where a is a multiple of 2^16 and 0 <= b < 2^16: no bit is shared
Or16(a, b) == a + b

RECURSIVE SumSeq(_)
SumSeq(s) == IF s = <<>> THEN 0 ELSE s[1] + SumSeq(Tail(s))

\* ------------------------------------------------------------------------
\* Hex text

HexDigits == <<"0", "1", "2", "3", "4", "5", "6", "7",
               "8", "9", "A", "B", "C", "D", "E", "F">>

LowerDigits == <<"0", "1", "2", "3", "4", "5", "6", "7",
                 "8", "9", "a", "b", "c", "d", "e", "f">>

\* the value of each character int(.., 16) and bytes.fromhex accept as a digit
HexTable == [c \in {HexDigits[i] : i \in 1..16} \cup {LowerDigits[i] : i \in 1..16} |->
                (CHOOSE i \in 1..16 : HexDigits[i] = c \/ LowerDigits[i] = c) - 1]

IsHexChar(c) == c \in DOMAIN HexTable

HexVal(c) == HexTable[c]

\* str.upper() on one character
UpperChar(c) ==
    IF \E i \in 11..16 : LowerDigits[i] = c
    THEN HexDigits[CHOOSE i \in 11..16 : LowerDigits[i] = c]
    ELSE IF c = "x" THEN "X" ELSE c

Upper(s) == [i \in 1..Len(s) |-> UpperChar(s[i])]

\* f"{b:02X}"
Fmt02X(b) == <<HexDigits[((b \div 16) % 16) + 1], HexDigits[(b % 16) + 1]>>

\* f"{w:04X}" for 0 <= w < 2^16
Fmt04X(w) == Fmt02X(w \div 256) \o Fmt02X(w % 256)

\* f"{n:X}" for n >= 0: the minimal hex representation
RECURSIVE FmtX(_)
FmtX(n) == IF n < 16 THEN <<HexDigits[n + 1]>>
           ELSE FmtX(n \div 16) \o <<HexDigits[(n % 16) + 1]>>

\* ''.join(f"{b:02X}" for b in chunk)
RECURSIVE JoinHex(_)
JoinHex(bs) == IF bs = <<>> THEN <<>> ELSE Fmt02X(bs[1]) \o JoinHex(Tail(bs))

\* int(s, 16) succeeds: s is a non-empty run of hex digits.  (Python also
\* accepts a sign, a 0x prefix, underscores and surrounding whitespace; the
\* lines of the model hold none of these.)
IntOk(s) == Len(s) > 0 /\ \A i \in 1..Len(s) : IsHexChar(s[i])

\* the value of int(s, 16) when it succeeds
RECURSIVE IntHex(_)
IntHex(s) == IF s = <<>> THEN 0
             ELSE 16 * IntHex(SubSeq(s, 1, Len(s) - 1)) + HexVal(s[Len(s)])

\* bytes.fromhex(s) succeeds: hex digits only, in pairs (the empty string too)
FromHexOk(s) == Len(s) % 2 = 0 /\ \A i \in 1..Len(s) : IsHexChar(s[i])

\* the value of bytes.fromhex(s) when it succeeds
FromHex(s) == [i \in 1..(Len(s) \div 2) |-> (16 * HexVal(s[2 * i - 1])) + HexVal(s[2 * i])]

\* int.from_bytes(data, 'big')
RECURSIVE FromBytesBig(_)
FromBytesBig(bs) == IF bs = <<>> THEN 0
                    ELSE 256 * FromBytesBig(SubSeq(bs, 1, Len(bs) - 1)) + bs[Len(bs)]

\* ------------------------------------------------------------------------
\* IntelHexFile.parse_line

Raised(what) == [ok |-> FALSE, error |-> what]

\* total, computed_checksum and the comparison
ChecksumOf(byte_count, address, record_type, data) ==
    And255(-(byte_count + Shr(address, 8) + And255(address) + record_type + SumSeq(data)))

parse_line(line) ==
    IF Len(line) = 0 \/ line[1] # ":" THEN Raised("Invalid Intel HEX line")
    ELSE
    LET l == SliceFrom(line, 1) IN
    IF ~IntOk(Slice(l, 0, 2)) THEN Raised("invalid literal")
    ELSE
    LET byte_count == IntHex(Slice(l, 0, 2)) IN
    IF ~IntOk(Slice(l, 2, 6)) THEN Raised("invalid literal")
    ELSE
    LET address == IntHex(Slice(l, 2, 6)) IN
    IF ~IntOk(Slice(l, 6, 8)) THEN Raised("invalid literal")
    ELSE
    LET record_type == IntHex(Slice(l, 6, 8)) IN
    IF ~FromHexOk(Slice(l, 8, 8 + byte_count * 2)) THEN Raised("fromhex")
    ELSE
    LET data == FromHex(Slice(l, 8, 8 + byte_count * 2)) IN
    IF ~IntOk(Slice(l, 8 + byte_count * 2, 10 + byte_count * 2)) THEN Raised("invalid literal")
    ELSE
    LET checksum == IntHex(Slice(l, 8 + byte_count * 2, 10 + byte_count * 2)) IN
    IF ChecksumOf(byte_count, address, record_type, data) # checksum
    THEN Raised("Checksum mismatch")
    ELSE [ok |-> TRUE, record_type |-> record_type, address |-> address, data |-> data]

\* ------------------------------------------------------------------------
\* IntelHexFile: the object and load_file

\* IntelHexFile.__init__
NoData == <<>>

NewIntelHexFile == [data |-> NoData, start_address |-> None]

\* str.strip() for the blank character
RECURSIVE StripLeft(_)
StripLeft(s) == IF s # <<>> /\ s[1] = " " THEN StripLeft(Tail(s)) ELSE s

RECURSIVE StripRight(_)
StripRight(s) == IF s # <<>> /\ s[Len(s)] = " "
                 THEN StripRight(SubSeq(s, 1, Len(s) - 1)) ELSE s

Strip(s) == StripRight(StripLeft(s))

\* for i, byte in enumerate(bs): data[full_address + i] = byte
StoreBytes(data, full_address, bs) ==
    [a \in {full_address + i : i \in 0..(Len(bs) - 1)} |-> bs[a - full_address + 1]]
        @@ data

\* a loader that forgets the shift
ExtendedOf_NoShift(data) == FromBytesBig(data)

\* extended_address = int.from_bytes(data, 'big') << 16
ExtendedOf(data) == Shl(FromBytesBig(data), 16)

\* full_address = extended_address | address
FullAddress(extended_address, address) == Or16(extended_address, address)

\* the locals of load_file and the fields of self before the first line
LoadStart(self) ==
    [extended_address |-> 0, first_data_address |-> None,
     data |-> self.data, start_address |-> self.start_address,
     status |-> "loop"]

\* one iteration of the loop of load_file; status is "loop" while the loop
\* runs, "break" after End Of File and "raised" after an exception
LoadLine(st, rawline) ==
    IF st.status # "loop" THEN st
    ELSE
    LET line == Strip(rawline) IN
    IF line = <<>> THEN st
    ELSE
    LET rec == parse_line(line) IN
    IF ~rec.ok THEN [st EXCEPT !.status = "raised"]
    ELSE IF rec.record_type = 0
    THEN LET full_address == FullAddress(st.extended_address, rec.address) IN
         [st EXCEPT !.first_data_address =
                        IF IsNone(@) THEN Some(full_address) ELSE @,
                    !.data = StoreBytes(@, full_address, rec.data)]
    ELSE IF rec.record_type = 1
    THEN [st EXCEPT !.status = "break"]
    ELSE IF rec.record_type = 4
    THEN [st EXCEPT !.extended_address = ExtendedOf(rec.data)]
    ELSE IF rec.record_type = 5
    THEN [st EXCEPT !.start_address = Some(FromBytesBig(rec.data))]
    ELSE st

\* the loop over lines[from..to], in file order
RECURSIVE LoadLines(_, _, _, _)
LoadLines(st, lines, from, to) ==
    IF from > to THEN st
    ELSE IF from = to THEN LoadLine(st, lines[from])
    ELSE LET mid  == (from + to) \div 2
             done == LoadLines(st, lines, from, mid)
         IN  IF done.status # "loop" THEN done
             ELSE LoadLines(done, lines, mid + 1, to)

\* a loader without the fallback to the first data address
LoadEnd_NoFallback(st) ==
    [data |-> st.data, start_address |-> st.start_address,
     raised |-> st.status = "raised"]

\* the fallback after the loop; an exception leaves the method before it
LoadEnd(st) ==
    IF st.status = "raised"
    THEN [data |-> st.data, start_address |-> st.start_address, raised |-> TRUE]
    ELSE [data |-> st.data,
          start_address |-> IF IsNone(st.start_address)
                            THEN st.first_data_address ELSE st.start_address,
          raised |-> FALSE]

\* load_file on the object self, reading a file that holds lines
load_file(self, lines) == LoadEnd(LoadLines(LoadStart(self), lines, 1, Len(lines)))

\* ------------------------------------------------------------------------
\* read_memory and write_memory

\* a lookup that fills with 0x00
Get_ZeroFill(data, a) == IF a \in DOMAIN data THEN data[a] ELSE 0

\* self.data.get(a, 0xFF)
Get(data, a) == IF a \in DOMAIN data THEN data[a] ELSE 255

\* read_memory with integer arguments: the hex text of length bytes
read_memory(data, addr, length) ==
    JoinHex([i \in 1..length |-> Get(data, addr + i - 1)])

\* str.lstrip('0x'): drops every leading character that is '0' or 'x'
RECURSIVE LStrip0x(_)
LStrip0x(s) == IF s # <<>> /\ (s[1] = "0" \/ s[1] = "x") THEN LStrip0x(Tail(s)) ELSE s

\* hex_str of write_memory; a value is [int |-> n] or [str |-> text]
HexStrOf(value) ==
    IF "int" \in DOMAIN value THEN FmtX(value.int)
    ELSE Upper(LStrip0x(value.str))

\* [int(hex_str[i:i + 2], 16) for i in range(0, len(hex_str), 2)]
BytesOfHexStr(hex_str) ==
    [k \in 1..((Len(hex_str) + 1) \div 2) |->
        IntHex(Slice(hex_str, 2 * (k - 1), 2 * (k - 1) + 2))]

\* every int(hex_str[i:i + 2], 16) succeeds
HexStrOk(hex_str) == \A i \in 1..Len(hex_str) : IsHexChar(hex_str[i])

\* write_memory with an integer address: the new data, or ValueError raised
\* by the list comprehension before any cell is written
write_memory(data, addr, value) ==
    LET hex_str == HexStrOf(value) IN
    IF ~HexStrOk(hex_str) THEN [data |-> data, raised |-> TRUE]
    ELSE [data |-> StoreBytes(data, addr, BytesOfHexStr(hex_str)), raised |-> FALSE]

\* ------------------------------------------------------------------------
\* save_file

ChunkSize == 32

Stride == 32

SetMin(S) == CHOOSE x \in S : \A y \in S : x <= y

SetMax(S) == CHOOSE x \in S : \A y \in S : x >= y

\* a chunk read one address too far
ChunkAt_Shifted(data, base) == [i \in 1..ChunkSize |-> Get(data, base + i)]

\* chunk = [self.data.get(base + i, 0xFF) for i in range(32)]
ChunkAt(data, base) == [i \in 1..ChunkSize |-> Get(data, base + i - 1)]

\* the Extended Linear Address line for current_ext_addr
ExtLine(current_ext_addr) ==
    LET high == And65535(current_ext_addr)
        checksum == And255(-2 - 4 - Shr(high, 8) - And255(high))
    IN  <<":", "0", "2", "0", "0", "0", "0", "0", "4">>
            \o Fmt04X(high) \o Fmt02X(checksum)

\* a Data checksum that leaves out the high byte of the address
DataChecksum_NoHigh(base, chunk) ==
    And255(-(Len(chunk) + And255(base) + 0 + SumSeq(chunk)))

\* the checksum of a Data line
DataChecksum(base, chunk) ==
    And255(-(Len(chunk) + Shr(base, 8) + And255(base) + 0 + SumSeq(chunk)))

\* the Data line for the chunk at base
DataLine(base, chunk) ==
    LET addr_field == Fmt04X(And65535(base))
        data_field == JoinHex(chunk)
        byte_count == Len(chunk)
        checksum   == DataChecksum(base, chunk)
    IN  <<":">> \o Fmt02X(byte_count) \o addr_field \o <<"0", "0">>
            \o data_field \o Fmt02X(checksum)

\* the End Of File line
EofLine == <<":", "0", "0", "0", "0", "0", "0", "0", "1", "F", "F">>

\* a loop that writes an Extended Linear Address line for every chunk
SaveChunk_AlwaysExt(st, data, base) ==
    [current_ext_addr |-> Some(Shr(base, 16)),
     out |-> st.out \o <<ExtLine(Shr(base, 16))>> \o <<DataLine(base, ChunkAt(data, base))>>]

\* one iteration of the loop of save_file
SaveChunk(st, data, base) ==
    LET chunk == ChunkAt(data, base)
        linear_addr == Shr(base, 16)
        emit == st.current_ext_addr # Some(linear_addr)
    IN  [current_ext_addr |-> IF emit THEN Some(linear_addr) ELSE st.current_ext_addr,
         out |-> st.out \o (IF emit THEN <<ExtLine(linear_addr)>> ELSE <<>>)
                        \o <<DataLine(base, chunk)>>]

\* the loop over base = lo + Stride * k for k in from..to, in ascending order
\* (every iteration sets current_ext_addr: the test only makes the first half
\* of the range evaluated before the second)
RECURSIVE SaveChunks(_, _, _, _, _)
SaveChunks(st, data, lo, from, to) ==
    IF from > to THEN st
    ELSE IF from = to THEN SaveChunk(st, data, lo + Stride * from)
    ELSE LET mid  == (from + to) \div 2
             done == SaveChunks(st, data, lo, from, mid)
         IN  IF IsNone(done.current_ext_addr) THEN done
             ELSE SaveChunks(done, data, lo, mid + 1, to)

\* save_file: the lines written, or IndexError on an empty image (the file
\* has been opened for writing, and is left empty)
save_file(data) ==
    IF DOMAIN data = {} THEN [lines |-> <<>>, raised |-> TRUE]
    ELSE
    LET lo == SetMin(DOMAIN data)
        hi == SetMax(DOMAIN data)
        st == SaveChunks([current_ext_addr |-> None, out |-> <<>>],
                         data, lo, 0, (hi - lo) \div Stride)
    IN  [lines |-> st.out \o <<EofLine>>, raised |-> FALSE]

\* ------------------------------------------------------------------------
\* The state machine: a HEX file is loaded into an IntelHexFile (as
\* HexEditor.__post_init__ does), the image may be written to, is saved,
\* and the saved file is loaded into a fresh IntelHexFile.

VARIABLES
    lines,          \* the lines of the input file
    data,           \* IntelHexFile.data of the first object
    start_address,  \* IntelHexFile.start_address of the first object
    raised,         \* whether the last call raised an exception
    call,           \* the last call and its arguments
    saved,          \* the lines of the file written by save_file
    fresh,          \* the IntelHexFile the saved file is loaded into
    pc              \* the position in the scenario

vars == <<lines, data, start_address, raised, call, saved, fresh, pc>>

\* Bounds of the model
MaxRecords == 3

MaxChunks == 3

\* Lines of input files
Data0005 == <<":", "0", "1", "0", "0", "0", "5", "0", "0", "1", "1", "E", "9">>

Data0010 == <<":", "0", "1", "0", "0", "1", "0", "0", "0", "F", "F", "F", "0">>

DataFFF0 == <<":", "0", "2", "F", "F", "F", "0", "0", "0", "A", "5", "0", "0", "6", "A">>

DataEmpty0030 == <<":", "0", "0", "0", "0", "3", "0", "0", "0", "D", "0">>

Ela0001 == <<":", "0", "2", "0", "0", "0", "0", "0", "4", "0", "0", "0", "1", "F", "9">>

Ela0000 == <<":", "0", "2", "0", "0", "0", "0", "0", "4", "0", "0", "0", "0", "F", "A">>

Sla00010010 == <<":", "0", "4", "0", "0", "0", "0", "0", "5",
                 "0", "0", "0", "1", "0", "0", "1", "0", "E", "6">>

EofRecord == <<":", "0", "0", "0", "0", "0", "0", "0", "1", "F", "F">>

\* Data0005 with a wrong checksum
BadChecksum == <<":", "0", "1", "0", "0", "0", "5", "0", "0", "1", "1", "0", "0">>

\* an Extended Segment Address record (type 02), with blanks around it
Seg02Padded == <<" ", ":", "0", "2", "0", "0", "0", "0", "0", "2",
                 "1", "0", "0", "0", "E", "C", " ">>

InputLines == {Data0005, Data0010, DataFFF0, DataEmpty0030, Ela0001, Ela0000,
               Sla00010010, EofRecord, BadChecksum, Seg02Padded}

\* the files of at most MaxRecords lines
InputFiles == UNION {[1..n -> InputLines] : n \in 0..MaxRecords}

\* Arguments of write_memory
WriteAddresses == {5, 65488}

WriteValues == {[int |-> 2748], [str |-> <<"0", "0", "F", "F">>],
                [str |-> <<"0", "x", "1", "2">>]}

NoCall == [op |-> "none"]

Init ==
    /\ lines \in InputFiles
    /\ data = NoData
    /\ start_address = None
    /\ raised = FALSE
    /\ call = NoCall
    /\ saved = <<>>
    /\ fresh = NewIntelHexFile
    /\ pc = "new"

\* HexEditor.__post_init__: parser = IntelHexFile(); parser.load_file(file)
LoadFile ==
    /\ pc = "new"
    /\ LET r == load_file(NewIntelHexFile, lines) IN
        /\ data' = r.data
        /\ start_address' = r.start_address
        /\ raised' = r.raised
        /\ pc' = IF r.raised THEN "failed" ELSE "loaded"
    /\ call' = [op |-> "load_file"]
    /\ UNCHANGED <<lines, saved, fresh>>

\* IntelHexFile.write_memory(address, value)
WriteMemory ==
    /\ pc = "loaded"
    /\ \E addr \in WriteAddresses, value \in WriteValues :
        LET r == write_memory(data, addr, value) IN
        /\ data' = r.data
        /\ raised' = r.raised
        /\ call' = [op |-> "write_memory", addr |-> addr, value |-> value,
                    before |-> data]
    /\ pc' = "written"
    /\ UNCHANGED <<lines, start_address, saved, fresh>>

\* the number of iterations of the loop of save_file
NChunks(d) == IF DOMAIN d = {} THEN 0
              ELSE (SetMax(DOMAIN d) - SetMin(DOMAIN d)) \div Stride + 1

\* IntelHexFile.save_file(output), for images of at most MaxChunks chunks
SaveFile ==
    /\ pc \in {"loaded", "written"}
    /\ ~raised
    /\ NChunks(data) <= MaxChunks
    /\ LET r == save_file(data) IN
        /\ saved' = r.lines
        /\ raised' = r.raised
        /\ pc' = IF r.raised THEN "failed" ELSE "saved"
    /\ call' = [op |-> "save_file"]
    /\ UNCHANGED <<lines, data, start_address, fresh>>

\* IntelHexFile().load_file(output): the saved file, loaded into a new object
Reload ==
    /\ pc = "saved"
    /\ LET r == load_file(NewIntelHexFile, saved) IN
        /\ fresh' = [data |-> r.data, start_address |-> r.start_address]
        /\ raised' = r.raised
        /\ pc' = IF r.raised THEN "failed" ELSE "reloaded"
    /\ call' = [op |-> "reload"]
    /\ UNCHANGED <<lines, data, start_address, saved>>

Next == LoadFile \/ WriteMemory \/ SaveFile \/ Reload

Spec == Init /\ [][Next]_vars

\* ------------------------------------------------------------------------
\* parse_line on its own: one line, drawn from the prefixes of well-formed
\* lines, is parsed

\* a record whose checksum byte is 00, and a short line
DataFF00 == <<":", "0", "1", "0", "0", "0", "0", "0", "0", "F", "F", "0", "0">>

ShortF100 == <<":", "0", "0", "0", "0", "F", "1", "0", "0", "F">>

ParseInputs ==
    {Slice(l, 0, n) : l \in InputLines \cup {DataFF00, ShortF100}, n \in 0..19}
        \cup {Tail(DataFF00)}

InitParse ==
    /\ lines \in {<<l>> : l \in ParseInputs}
    /\ data = NoData
    /\ start_address = None
    /\ raised = FALSE
    /\ call = NoCall
    /\ saved = <<>>
    /\ fresh = NewIntelHexFile
    /\ pc = "new"

\* IntelHexFile.parse_line(line)
ParseLine ==
    /\ pc = "new"
    /\ LET r == parse_line(lines[1]) IN
        /\ call' = [op |-> "parse_line", result |-> r]
        /\ raised' = ~r.ok
    /\ pc' = "parsed"
    /\ UNCHANGED <<lines, data, start_address, saved, fresh>>

NextParse == ParseLine

SpecParse == InitParse /\ [][NextParse]_vars

\* ------------------------------------------------------------------------
\* The records of a file, read off its text

\* a sequence given as a function, computed once
AsSeq(f) == f \o <<>>

\* the records of the lines of file f, blanks around a line left out
Recs(f) == AsSeq([k \in 1..Len(f) |-> parse_line(Strip(f[k]))])

\* in what follows r is Recs(f) for a file f
IsType(r, k, t) == r[k].ok /\ r[k].record_type = t

\* the first End Of File record, or Len(r) + 1
EofIndex(r) ==
    IF \E k \in 1..Len(r) : IsType(r, k, 1)
    THEN SetMin({k \in 1..Len(r) : IsType(r, k, 1)})
    ELSE Len(r) + 1

\* the records of type t that precede End Of File
Before(r, t) == {k \in 1..(EofIndex(r) - 1) : IsType(r, k, t)}

\* the payload of the most recent Extended Linear Address record before record k
SegmentAt(r, k) ==
    LET E == {j \in Before(r, 4) : j < k} IN
    IF E = {} THEN 0 ELSE FromBytesBig(r[SetMax(E)].data)

\* ((E << 16) | address) for Data record k
AbsoluteAt(r, k) == SegmentAt(r, k) * 65536 + r[k].address

\* the bytes the Data records put at address a, as <<record, offset>>
WritersOf(r, a) ==
    UNION {{<<k, i>> : i \in {i \in 0..(Len(r[k].data) - 1) : AbsoluteAt(r, k) + i = a}} :
              k \in Before(r, 0)}

LastWriter(r, a) ==
    CHOOSE w \in WritersOf(r, a) : \A v \in WritersOf(r, a) : v[1] <= w[1]

\* the chunk bases of save_file for image d
Bases(d) == {SetMin(DOMAIN d) + Stride * k : k \in 0..(NChunks(d) - 1)}

BaseNo(d, j) == SetMin(DOMAIN d) + Stride * (j - 1)

SavedRecs == AsSeq([k \in 1..Len(saved) |-> parse_line(saved[k])])

IsDataRec(r) == r.ok /\ r.record_type = 0

IsElaRec(r) == r.ok /\ r.record_type = 4

\* the Data records of a sequence of records
DataOf(recs) == SelectSeq(recs, IsDataRec)

\* the payloads of its Extended Linear Address records, as numbers
SegmentsOf(recs) ==
    LET e == SelectSeq(recs, IsElaRec) IN
    AsSeq([j \in 1..Len(e) |-> FromBytesBig(e[j].data)])

\* ------------------------------------------------------------------------
\* Properties

Loaded == pc = "loaded"

Saved == pc = "saved"

Reloaded == pc = "reloaded"

\* C1, as claimed: after save_file and a load into a fresh image, the fresh
\* image has the same populated addresses as the original, with the same bytes.
C1_RoundTripIdentical == Reloaded => fresh.data = data

\* C1: after save_file and a load into a fresh image, every address populated
\* in the original is populated in the fresh image with the same byte, every
\* other populated address of the fresh image holds the fill byte 0xFF and lies
\* in one of the 32-byte chunks written, so that every read gives the same bytes.
C1_RoundTripReads ==
    Reloaded =>
        /\ \A a \in DOMAIN data : a \in DOMAIN fresh.data /\ fresh.data[a] = data[a]
        /\ \A a \in DOMAIN fresh.data \ DOMAIN data :
            /\ fresh.data[a] = 255
            /\ \E b \in Bases(data) : b <= a /\ a < b + 32
        /\ \A a \in (SetMin(DOMAIN data) - 1)..(SetMax(DOMAIN data) + 32) :
            read_memory(fresh.data, a, 1) = read_memory(data, a, 1)

C1_Witness ==
    /\ Reloaded
    /\ Cardinality(DOMAIN data) >= 3
    /\ NChunks(data) >= 2
    /\ DOMAIN fresh.data # DOMAIN data

\* C2, as claimed: an image with one populated byte, at 0x05, is saved as one
\* Data record covering 0x00..0x1F: address field 0, the written value at
\* offset 5 of the payload and 0xFF at the 31 other offsets.
C2_ChunkFromZero ==
    (Saved /\ DOMAIN data = {5}) =>
        LET sd == DataOf(SavedRecs) IN
        /\ Len(sd) = 1
        /\ sd[1].address = 0
        /\ Len(sd[1].data) = 32
        /\ \A i \in 0..31 : sd[1].data[i + 1] = IF i = 5 THEN data[5] ELSE 255

\* C2: an image with one populated byte, at 0x05, is saved as one Data record
\* covering 0x05..0x24: address field 5, the written value at offset 0 of the
\* payload and 0xFF at the 31 other offsets.
C2_ChunkFromLowest ==
    (Saved /\ DOMAIN data = {5}) =>
        LET sd == DataOf(SavedRecs) IN
        /\ Len(sd) = 1
        /\ sd[1].address = 5
        /\ Len(sd[1].data) = 32
        /\ \A i \in 0..31 : sd[1].data[i + 1] = IF i = 0 THEN data[5] ELSE 255

C2_Witness == Saved /\ DOMAIN data = {5} /\ data[5] = 17

\* C3: every line save_file writes is accepted by parse_line; the Data lines
\* parse, in order, to type 0, address base & 0xFFFF and the 32 bytes of the
\* chunk at each base; every Extended Linear Address line parses to type 4,
\* address 0 and the two bytes of the segment of the Data line after it; the
\* last line parses to type 1, address 0 and no payload.
C3_SavedLinesParse ==
    Saved =>
        LET recs == SavedRecs
            sd   == DataOf(recs)
        IN
        /\ \A k \in 1..Len(recs) : recs[k].ok /\ recs[k].record_type \in {0, 1, 4}
        /\ Len(sd) = NChunks(data)
        /\ \A j \in 1..Len(sd) :
            /\ sd[j].address = BaseNo(data, j) % 65536
            /\ sd[j].data = [i \in 1..32 |-> Get(data, BaseNo(data, j) + i - 1)]
        /\ \A k \in 1..Len(recs) :
            recs[k].record_type = 4 =>
                /\ recs[k].address = 0
                /\ k < Len(recs) /\ recs[k + 1].record_type = 0
                /\ LET j == Len(DataOf(SubSeq(recs, 1, k + 1))) IN
                   recs[k].data = <<(BaseNo(data, j) \div 65536) \div 256,
                                    (BaseNo(data, j) \div 65536) % 256>>
        /\ recs[Len(recs)] =
                [ok |-> TRUE, record_type |-> 1, address |-> 0, data |-> <<>>]

C3_Witness ==
    /\ Saved
    /\ NChunks(data) >= 2
    /\ \E j \in 1..NChunks(data) : BaseNo(data, j) >= 65536 /\ BaseNo(data, j) % 256 # 0

\* the lines the claim C4 is about: a ':' followed by fewer characters than
\* the 8 header digits, 2 * count payload digits and 2 checksum digits that
\* the declared count requires
Truncated(line) ==
    /\ Len(line) >= 1 /\ line[1] = ":"
    /\ \/ Len(line) - 1 < 8
       \/ /\ IntOk(Slice(line, 1, 3))
          /\ Len(line) - 1 < 8 + 2 * IntHex(Slice(line, 1, 3)) + 2

\* C4: parse_line fails on every line that starts with ':' and is shorter
\* than its declared count requires, a line that stops after one checksum
\* digit included.
C4_TruncatedRejected ==
    (call.op = "parse_line" /\ Truncated(lines[1])) => ~call.result.ok

\* C5: when a line fails to decode, the load stops there and the image holds
\* no cell and no entry point from the records before the failing line.
C5_NoPartialLoad ==
    (pc = "failed" /\ call.op = "load_file") =>
        data = NoData /\ start_address = None

\* the entry point of the rule of C6 with the first Data record
EntryOfFirstRecord(r) ==
    IF Before(r, 5) # {}
    THEN Some(FromBytesBig(r[SetMax(Before(r, 5))].data))
    ELSE IF Before(r, 0) # {}
    THEN Some(AbsoluteAt(r, SetMin(Before(r, 0))))
    ELSE None

\* the Data records before End Of File that insert at least one byte
Inserting(r) == {k \in Before(r, 0) : Len(r[k].data) > 0}

\* the entry point of the rule of C6 with the first byte inserted
EntryOfFirstByte(r) ==
    IF Before(r, 5) # {}
    THEN Some(FromBytesBig(r[SetMax(Before(r, 5))].data))
    ELSE IF Inserting(r) # {}
    THEN Some(AbsoluteAt(r, SetMin(Inserting(r))))
    ELSE None

\* C6, as claimed: after a successful load the entry point is the value of the
\* Start Linear Address record if one precedes End Of File, else the address of
\* the first byte inserted, also when the first Data record is empty, and it is
\* absent when no byte was inserted.
C6_EntryFirstByte == Loaded => start_address = EntryOfFirstByte(Recs(lines))

\* C6: after a successful load the entry point is the value of the last Start
\* Linear Address record that precedes End Of File if there is one, else the
\* absolute address of the first Data record that precedes End Of File, whether
\* or not its payload is empty, and it is absent when there is no such record.
C6_EntryFirstRecord == Loaded => start_address = EntryOfFirstRecord(Recs(lines))

C6_Witness ==
    /\ Loaded
    /\ LET r == Recs(lines) IN
        /\ Before(r, 5) = {}
        /\ Inserting(r) # {}
        /\ SetMin(Before(r, 0)) < SetMin(Inserting(r))
        /\ start_address # EntryOfFirstByte(r)

\* C7: after a successful load the image holds exactly the bytes of the Data
\* records that precede End Of File, byte i of a record at
\* ((E << 16) | address) + i, E being the payload of the most recent Extended
\* Linear Address record before that Data record (0 if none); where records
\* overlap, the later one in file order wins.
C7_ExtendedAddressScope ==
    Loaded =>
        LET r == Recs(lines) IN
        /\ DOMAIN data =
              UNION {{AbsoluteAt(r, k) + i : i \in 0..(Len(r[k].data) - 1)} :
                        k \in Before(r, 0)}
        /\ \A a \in DOMAIN data :
              LET w == LastWriter(r, a) IN
              data[a] = r[w[1]].data[w[2] + 1]

C7_Witness ==
    /\ Loaded
    /\ LET r == Recs(lines) IN
        /\ \E k \in Before(r, 0) :
            /\ SegmentAt(r, k) = 1
            /\ r[k].address = 16
            /\ 65552 \in DOMAIN data
        /\ \E k \in Before(r, 0) : SegmentAt(r, k) = 0 /\ Len(r[k].data) > 0

\* the last chunk base of save_file for image d
LastBase(d) == BaseNo(d, NChunks(d))

\* C8, as claimed: the saved file holds exactly one Extended Linear Address
\* record for each segment number s with lo >> 16 < s <= hi >> 16.
C8_ElaPerBoundary ==
    Saved =>
        LET segs == SegmentsOf(SavedRecs) IN
        \A s \in (SetMin(DOMAIN data) \div 65536 + 1)..(SetMax(DOMAIN data) \div 65536) :
            Cardinality({j \in 1..Len(segs) : segs[j] = s}) = 1

\* C8: the saved file holds one Extended Linear Address record for the segment
\* lo >> 16 of the first chunk and one for each segment number s with
\* lo >> 16 < s <= b >> 16, b being the base of the last chunk, in ascending
\* order and no other; each stands immediately before the first Data record
\* whose base lies in its segment.  A boundary that only the last chunk
\* straddles (b >> 16 < hi >> 16) gets no record.
C8_ElaPerChunkSegment ==
    Saved =>
        LET recs == SavedRecs IN
        /\ SegmentsOf(recs) =
              [j \in 1..(LastBase(data) \div 65536 - SetMin(DOMAIN data) \div 65536 + 1) |->
                  SetMin(DOMAIN data) \div 65536 + j - 1]
        /\ \A k \in 1..Len(recs) :
              recs[k].record_type = 4 =>
                  /\ k < Len(recs) /\ recs[k + 1].record_type = 0
                  /\ LET j == Len(DataOf(SubSeq(recs, 1, k + 1))) IN
                      /\ BaseNo(data, j) \div 65536 = FromBytesBig(recs[k].data)
                      /\ (j > 1 => BaseNo(data, j - 1) \div 65536 # BaseNo(data, j) \div 65536)

C8_Witness ==
    /\ Saved
    /\ NChunks(data) = 3
    /\ SetMin(DOMAIN data) \div 65536 = 0
    /\ LastBase(data) \div 65536 = 1
    /\ BaseNo(data, 2) \div 65536 = 0
    /\ Len(SegmentsOf(SavedRecs)) = 2

\* the bytes of a value as C9 normalizes it
PadEven(h) == IF Len(h) % 2 = 1 THEN <<"0">> \o h ELSE h

DropPrefix0x(t) ==
    IF Len(t) >= 2 /\ t[1] = "0" /\ t[2] = "x" THEN SubSeq(t, 3, Len(t)) ELSE t

NormalBytes(value) ==
    IF "int" \in DOMAIN value THEN FromHex(PadEven(FmtX(value.int)))
    ELSE FromHex(DropPrefix0x(value.str))

\* C9: write_memory(address, value) stores, from address on, the bytes of the
\* hex digits of value: of an integer, its minimal hex representation with one
\* zero put in front when the number of digits is odd; of a string, the digits
\* left when only an exact leading 0x is removed.
C9_WriteNormalized ==
    call.op = "write_memory" =>
        /\ ~raised
        /\ data = StoreBytes(call.before, call.addr, NormalBytes(call.value))

\* C10: when the entry point was set by a Start Linear Address record during
\* the load, the fresh image loaded from the saved file has the same entry point.
C10_ExplicitEntrySurvives ==
    (Reloaded /\ Before(Recs(lines), 5) # {}) => fresh.start_address = start_address

====
